---- MODULE Spec2Model ----
(***************************************************************************)
(* Model of arxiv_processing.ipynb: the cells of the notebook, run in      *)
(* notebook order, turn the ArXiv metadata file into the five tables       *)
(* Submission, Category, Author, Submission-Author, Submission-Category.   *)
(*                                                                         *)
(* Python strings that the code takes apart (category strings, first       *)
(* names) are sequences of one-character strings; strings that are only    *)
(* copied (surnames, suffixes, journal references) are TLA+ strings.       *)
(***************************************************************************)
EXTENDS Integers, Sequences, FiniteSets, TLC

VARIABLES file, run, previous, pc, error, written, disk, arxiv_math, submission,
          category, unique_names, author, get_gender_calls, author_dict,
          submission_author, submission_category

vars == <<file, run, previous, pc, error, written, disk, arxiv_math, submission,
          category, unique_names, author, get_gender_calls, author_dict,
          submission_author, submission_category>>

(***************************************************************************)
(* Bounds of the model.                                                    *)
(***************************************************************************)
\* most records (lines) in the metadata file
MaxRecords == 2
\* most revision entries in the file, all records together
MaxVersions == 3
\* most author entries in the file, all records together
MaxAuthors == 3

(***************************************************************************)
(* Python and pandas values.                                               *)
(***************************************************************************)
\* json null as json.loads returns it
None == "None"
\* the missing value of pandas
NaN == "NaN"

Min(a, b) == IF a < b THEN a ELSE b
Max(a, b) == IF a > b THEN a ELSE b

\* s[:k]
PyPrefix(s, k) ==
  IF k >= 0 THEN SubSeq(s, 1, Min(k, Len(s)))
  ELSE SubSeq(s, 1, Max(Len(s) + k, 0))

\* s[k:] for k >= 0
PySuffix(s, k) == SubSeq(s, k + 1, Len(s))

\* s.find(ch): 0-based place of the first ch, -1 when there is none
Find(s, ch) ==
  IF \E i \in 1..Len(s) : s[i] = ch
  THEN (CHOOSE i \in 1..Len(s) : s[i] = ch /\ \A j \in 1..(i - 1) : s[j] # ch) - 1
  ELSE -1

\* s.startswith(p)
StartsWith(s, p) == Len(s) >= Len(p) /\ SubSeq(s, 1, Len(p)) = p

\* s.split(sep): cut at every sep, empty pieces kept
RECURSIVE Split(_, _)
Split(s, sep) ==
  LET k == Find(s, sep) IN
  IF k = -1 THEN <<s>>
  ELSE <<SubSeq(s, 1, k)>> \o Split(SubSeq(s, k + 2, Len(s)), sep)

\* the elements of a sequence
Range(s) == {s[i] : i \in 1..Len(s)}

\* the sequences in which every member of S occurs exactly once
Orderings(S) ==
  {o \in [1..Cardinality(S) -> S] : \A i, j \in 1..Cardinality(S) : o[i] = o[j] => i = j}

\* the concatenation of a sequence of sequences
RECURSIVE Flatten(_)
Flatten(ss) == IF ss = <<>> THEN <<>> ELSE Head(ss) \o Flatten(Tail(ss))

(***************************************************************************)
(* The input: the records of data/arxiv-metadata-oai-snapshot.json.        *)
(***************************************************************************)
\* identifiers of the records, by line of the file
ArxivIds == <<"0704.0002", "math/0406594", "0704.0010", "0704.0004">>

\* 'created' strings: two well-formed ones on different days, one that is no date
GoodStamp1 == [wd |-> "Mon", day |-> 2, mon |-> "Apr", year |-> 2007, hms |-> "19:18:42"]
GoodStamp2 == [wd |-> "Fri", day |-> 1, mon |-> "Jun", year |-> 2007, hms |-> "00:05:00"]
BadStamp == [wd |-> "", day |-> 0, mon |-> "", year |-> 0, hms |-> "n/a"]
Timestamps == {GoodStamp1, GoodStamp2, BadStamp}

\* the revision history with the given 'created' strings
History(stamps) == [k \in 1..Len(stamps) |-> [version |-> k, created |-> stamps[k]]]

\* journal-ref fields: absent, empty, present
JournalRefs == {None, "", "J. Comb. 1 (2007)"}

math_CO == <<"m", "a", "t", "h", ".", "C", "O">>
math_MP == <<"m", "a", "t", "h", ".", "M", "P">>
math_ZZ == <<"m", "a", "t", "h", ".", "Z", "Z">>
math_ph == <<"m", "a", "t", "h", "-", "p", "h">>
cs_DM == <<"c", "s", ".", "D", "M">>
mathx == <<"m", "a", "t", "h", "x">>
Space == <<" ">>

\* category strings: space-separated tokens
CategoryStrings ==
  { math_CO,
    math_CO \o Space \o cs_DM,
    math_ZZ,
    math_MP \o Space \o math_ph,
    cs_DM,
    mathx }

\* [surname, given name, suffix] triples of authors_parsed
Kim == <<"K", "i", "m">>
Ann == <<"A", "n", "n">>
Ann_M == <<"A", "n", "n", " ", "M">>
Bob == <<"B", "o", "b">>
AuthorTriples ==
  { <<"Smith", Kim, "">>,
    <<"Smith", Kim, "Jr">>,
    <<"Doe", Ann_M, "">>,
    <<"Roe", Ann, "">> }

\* one line of the file
Doc(i, stamps, jref, cats, authors) ==
  [id |-> ArxivIds[i], journal_ref |-> jref, categories |-> cats,
   versions |-> History(stamps), authors_parsed |-> authors]

\* n lists over S with at most budget elements between them
RECURSIVE Columns(_, _, _)
Columns(S, n, budget) ==
  IF n = 0 THEN {<<>>}
  ELSE UNION {{<<l>> \o rest : l \in [1..k -> S], rest \in Columns(S, n - 1, budget - k)} :
              k \in 0..budget}

\* The files the runs start from. One column at a time takes every value
\* within the bounds while the others hold a well-formed value.
VersionFiles(n) ==
  {[i \in 1..n |-> Doc(i, col[i], None, math_CO, <<<<"Roe", Bob, "">>>>)] :
     col \in Columns(Timestamps, n, MaxVersions)}

JournalCategoryFiles(n) ==
  {[i \in 1..n |-> Doc(i, <<GoodStamp1>>, jc[i][1], jc[i][2], <<<<"Doe", Ann_M, "">>>>)] :
     jc \in [1..n -> JournalRefs \X CategoryStrings]}

AuthorFiles(n) ==
  {[i \in 1..n |-> Doc(i, <<GoodStamp1, GoodStamp2>>, "", math_CO, col[i])] :
     col \in Columns(AuthorTriples, n, MaxAuthors)}

(***************************************************************************)
(* Filtering out the maths submissions.                                    *)
(***************************************************************************)
\* def isMathCategory(categories)
isMathCategory(categories) ==
  LET cats == Split(categories, " ") IN
  \E k \in 1..Len(cats) : PyPrefix(cats[k], Find(cats[k], ".")) = <<"m", "a", "t", "h">>

\* def loadArxivData(file, catFilter, cols=None): the records the filter accepts
loadArxivData(f, catFilter) ==
  LET Keep(doc) == catFilter[doc.categories] IN SelectSeq(f, Keep)

\* catFilter = isMathCategory, as a function of the category string
MathFilter == [categories \in CategoryStrings |-> isMathCategory(categories)]

(***************************************************************************)
(* The csv round trip of arxiv-math.csv.                                   *)
(***************************************************************************)
\* str(x) of a list, as to_csv writes it, and eval of that text
Repr(x) == [repr |-> x]
Eval(s) == s.repr

\* to_csv: None becomes the empty field, lists become their text
ToCsvArxiv(df) ==
  [i \in 1..Len(df) |->
     [id |-> df[i].id,
      journal_ref |-> IF df[i].journal_ref = None THEN "" ELSE df[i].journal_ref,
      categories |-> df[i].categories,
      versions |-> Repr(df[i].versions),
      authors_parsed |-> Repr(df[i].authors_parsed)]]

\* the text of the float a numeric-looking field is read as
FloatText ==
  ("0704.0002" :> "704.0002") @@ ("0704.0010" :> "704.001") @@ ("0704.0004" :> "704.0004")
  @@ ("704.0002" :> "704.0002") @@ ("704.001" :> "704.001") @@ ("704.0004" :> "704.0004")

\* read_csv infers the type of a column: floats when every field is numeric
InferColumn(col) ==
  IF \A i \in 1..Len(col) : col[i] \in DOMAIN FloatText
  THEN [i \in 1..Len(col) |-> FloatText[col[i]]]
  ELSE col

\* pd.read_csv: the empty field is NaN
ReadCsvArxiv(text) ==
  LET ids == InferColumn([i \in 1..Len(text) |-> text[i].id]) IN
  [i \in 1..Len(text) |->
     [id |-> ids[i],
      journal_ref |-> IF text[i].journal_ref = "" THEN NaN ELSE text[i].journal_ref,
      categories |-> text[i].categories,
      versions |-> text[i].versions,
      authors_parsed |-> text[i].authors_parsed]]

(***************************************************************************)
(* Submission: the date of the first revision, the journal-ref flag.       *)
(***************************************************************************)
MonthNum ==
  [Jan |-> 1, Feb |-> 2, Mar |-> 3, Apr |-> 4, May |-> 5, Jun |-> 6,
   Jul |-> 7, Aug |-> 8, Sep |-> 9, Oct |-> 10, Nov |-> 11, Dec |-> 12]

\* dateutil's parser.parse: a datetime, or ParserError for text that is no date
Parses(stamp) == stamp.mon \in DOMAIN MonthNum /\ stamp.day \in 1..31
Parse(stamp) ==
  [year |-> stamp.year, month |-> MonthNum[stamp.mon], day |-> stamp.day, time |-> stamp.hms]

\* datetime.date: the calendar date of a datetime
DateOf(dt) == [year |-> dt.year, month |-> dt.month, day |-> dt.day]

\* a mutation of FirstSubmissionDate: the newest revision instead of the first
LastSubmissionDate(x) ==
  LET last == x[Len(x)].created IN
  [year |-> last.year,
   month |-> IF last.mon \in DOMAIN MonthNum THEN MonthNum[last.mon] ELSE 0,
   day |-> last.day]

\* lambda x : datetime.date(parser.parse(x[0]['created']))
FirstSubmissionDate(x) == DateOf(Parse(x[1].created))

\* the exception the lambda raises on x, "" when it returns
DateError(x) ==
  IF Len(x) = 0 THEN "IndexError"
  ELSE IF ~Parses(x[1].created) THEN "ParserError"
  ELSE ""

\* Series.isnull().astype('int')
IsNullInt(x) == IF x \in {None, NaN} THEN 1 ELSE 0

\* a mutation of JournalRefFlag: the complement is forgotten
JournalRefMissing(x) == IsNullInt(x)

\* 1 - isnull().astype('int')
JournalRefFlag(x) == 1 - IsNullInt(x)

submission_cols == <<"id", "submission_date", "title", "abstract", "journal-ref", "comments">>

\* arxiv_math[submission_cols].copy(); title, abstract and comments are carried
\* over unread and are left out of the rows
SubmissionOf(df) ==
  [columns |-> submission_cols,
   rows |-> [i \in 1..Len(df) |->
               [id |-> df[i].id, submission_date |-> df[i].submission_date,
                journal_ref |-> df[i].journal_ref]]]

\* DataFrame.rename(columns={old: new}) without inplace: a new frame with the
\* column renamed; the frame it is called on keeps its columns
Rename(t, old, new) ==
  [t EXCEPT !.columns = [k \in 1..Len(t.columns) |->
                           IF t.columns[k] = old THEN new ELSE t.columns[k]]]

\* the text to_csv writes for a 0/1 flag
IntText(v) == IF v = 0 THEN "0" ELSE "1"

\* submission.to_csv(quoting=csv.QUOTE_NONNUMERIC)
ToCsvSubmission(t) ==
  [columns |-> t.columns,
   rows |-> [i \in 1..Len(t.rows) |->
               [id |-> t.rows[i].id, submission_date |-> t.rows[i].submission_date,
                journal_ref |-> IntText(t.rows[i].journal_ref)]]]

\* pd.read_csv(dtype=types): journal-ref is read as text, the empty field is NaN;
\* types names no column 'id', whose type is inferred
ReadCsvSubmission(text) ==
  LET ids == InferColumn([i \in 1..Len(text.rows) |-> text.rows[i].id]) IN
  [columns |-> text.columns,
   rows |-> [i \in 1..Len(text.rows) |->
               [id |-> ids[i], submission_date |-> text.rows[i].submission_date,
                journal_ref |-> IF text.rows[i].journal_ref = "" THEN NaN
                                ELSE text.rows[i].journal_ref]]]

(***************************************************************************)
(* Category: the hard-coded table.                                         *)
(***************************************************************************)
CategoryItems ==
  << << <<"A", "C">>, "Commutative Algebra">>, << <<"A", "G">>, "Algebraic Geometry">>,
     << <<"A", "P">>, "Analysis of PDEs">>, << <<"A", "T">>, "Algebraic Topology">>,
     << <<"C", "A">>, "Classicial Analysis and ODES">>, << <<"C", "O">>, "Combinatorics">>,
     << <<"C", "T">>, "Category Theory">>, << <<"C", "V">>, "Complex Variables">>,
     << <<"D", "G">>, "Differential Geometry">>, << <<"D", "S">>, "Dynamical Systems">>,
     << <<"F", "A">>, "Functional Analysis">>, << <<"G", "M">>, "General Mathematics">>,
     << <<"G", "N">>, "General Topology">>, << <<"G", "R">>, "Group Theory">>,
     << <<"G", "T">>, "Geometric Topology">>, << <<"H", "O">>, "History and Overview">>,
     << <<"I", "T">>, "Information Theory">>, << <<"K", "T">>, "K-Theory and Homology">>,
     << <<"L", "O">>, "Logic">>, << <<"M", "G">>, "Metric Geometry">>,
     << <<"M", "P">>, "Mathematical Physics">>, << <<"N", "A">>, "Numerical Analysis">>,
     << <<"N", "T">>, "Number Theory">>, << <<"O", "A">>, "Operator Algebras">>,
     << <<"O", "C">>, "Optimization and Control">>, << <<"P", "R">>, "Probability">>,
     << <<"Q", "A">>, "Quantum Algebra">>, << <<"R", "A">>, "Rings and Algebras">>,
     << <<"R", "T">>, "Representation Theory">>, << <<"S", "G">>, "Symplectic Geometry">>,
     << <<"S", "P">>, "Spectral Theory">>, << <<"S", "T">>, "Statistics Theory">> >>

\* the keys of category_dict
category_dict == {CategoryItems[k][1] : k \in 1..Len(CategoryItems)}

\* pd.DataFrame(category_dict.items(), columns=['category_id', 'category_name'])
CategoryTable ==
  [k \in 1..Len(CategoryItems) |->
     [category_id |-> CategoryItems[k][1], category_name |-> CategoryItems[k][2]]]

(***************************************************************************)
(* Author: the registry of distinct (surname, given name) pairs.           *)
(***************************************************************************)
\* DataFrame.explode on a column of lists: one row per element, in row order
\* then element order; an empty list gives one row holding NaN
ExplodeRow(id, list) ==
  IF Len(list) = 0 THEN <<[id |-> id, isna |-> TRUE, value |-> <<>>]>>
  ELSE [k \in 1..Len(list) |-> [id |-> id, isna |-> FALSE, value |-> list[k]]]

Explode(ids, lists) == Flatten([i \in 1..Len(lists) |-> ExplodeRow(ids[i], lists[i])])

\* tuple(x[:2]) of the registry
RegistryKey(x) == SubSeq(x, 1, 2)

\* a mutation of UniqueNameOrders: the names are not deduplicated
AllNameOrders(names_list) ==
  {[k \in 1..Len(names_list) |-> RegistryKey(names_list[k].value)]}

\* [name for name in set(tuple(x[:2]) for x in names_list)]: the set in any
\* of the orders its iteration can take
UniqueNameOrders(names_list) ==
  Orderings({RegistryKey(names_list[k].value) : k \in 1..Len(names_list)})

\* author with the columns author_id (the index), surname, first_name
AuthorTable(names) ==
  [k \in 1..Len(names) |->
     [author_id |-> k - 1, surname |-> names[k][1], first_name |-> names[k][2]]]

\* x.split(' ')[0]
FirstToken(first_name) == Split(first_name, " ")[1]

\* gender_guesser's Detector.get_gender on the names of the input
get_gender(name) ==
  CASE name = Ann -> "female"
    [] name = Bob -> "male"
    [] name = Kim -> "andy"
    [] OTHER -> "unknown"

\* a mutation of GenderOf: the results are not normalised
GenderAsGuessed(gender_dict, name) ==
  IF name \in DOMAIN gender_dict THEN gender_dict[name] ELSE "unknown"

\* the gender column: gender_dict[name], anything but male and female is unknown
GenderOf(gender_dict, name) ==
  LET g == IF name \in DOMAIN gender_dict THEN gender_dict[name] ELSE "unknown" IN
  IF g # "male" /\ g # "female" THEN "unknown" ELSE g

\* a mutation of AuthorDict: the last name is left out of the zip
AuthorDictShort(names, ids) ==
  [name \in {names[k] : k \in 1..(Len(names) - 1)} |->
     ids[CHOOSE k \in 1..(Len(names) - 1) : names[k] = name]]

\* a mutation of AuthorDict: the ids are zipped one place off
AuthorDictShifted(names, ids) ==
  [name \in Range(names) |->
     ids[((CHOOSE k \in 1..Len(names) :
             names[k] = name /\ \A j \in (k + 1)..Len(names) : names[j] # name)
          % Len(names)) + 1]]

\* dict(zip(unique_names, ids)): a later pair replaces an earlier one with its key
AuthorDict(names, ids) ==
  [name \in Range(names) |->
     ids[CHOOSE k \in 1..Len(names) :
           names[k] = name /\ \A j \in (k + 1)..Len(names) : names[j] # name]]

(***************************************************************************)
(* Submission-Author and Submission-Category.                              *)
(***************************************************************************)
\* a mutation of LookupKey: the suffix is kept in the key
LookupKeyWithSuffix(x) == x

\* tuple(x[:2]) of the lookup
LookupKey(x) == SubSeq(x, 1, 2)

\* the exception of the first exploded row the lookup fails on, "" when none
LookupError(rows, dict) ==
  LET Fails(k) == rows[k].isna \/ LookupKey(rows[k].value) \notin DOMAIN dict IN
  IF \A k \in 1..Len(rows) : ~Fails(k) THEN ""
  ELSE LET k == CHOOSE k \in 1..Len(rows) : Fails(k) /\ \A j \in 1..(k - 1) : ~Fails(j)
       IN IF rows[k].isna THEN "TypeError" ELSE "KeyError"

\* the rows (arxiv_id, author_id)
SubmissionAuthorRows(rows, dict) ==
  [k \in 1..Len(rows) |->
     [arxiv_id |-> rows[k].id, author_id |-> dict[LookupKey(rows[k].value)]]]

\* str.startswith('math')
KeepCategory(token) == StartsWith(token, <<"m", "a", "t", "h">>)

\* lambda x : x[5:]
StripArea(token) == PySuffix(token, 5)

\* the rows (arxiv_id, category_id) of the math categories
SubmissionCategoryRows(df) ==
  LET exploded ==
        Explode([i \in 1..Len(df) |-> df[i].id],
                [i \in 1..Len(df) |-> Split(df[i].categories, " ")])
      Keep(row) == KeepCategory(row.value)
      kept == SelectSeq(exploded, Keep)
  IN [k \in 1..Len(kept) |->
        [arxiv_id |-> kept[k].id, category_id |-> StripArea(kept[k].value)]]

(***************************************************************************)
(* The notebook: one action per code cell, in notebook order.              *)
(***************************************************************************)
ArxivMathCsv == "data/arxiv-math.csv"
SubmissionCsv == "data/submission.csv"
CategoryCsv == "data/category.csv"
AuthorCsv == "author.csv"
SubmissionAuthorCsv == "submission_author.csv"
SubmissionCategoryCsv == "submission_category.csv"

\* the files of the five tables
TableFiles ==
  {SubmissionCsv, CategoryCsv, AuthorCsv, SubmissionAuthorCsv, SubmissionCategoryCsv}

NoError == [cell |-> "", exc |-> ""]

Init ==
  /\ \E n \in 1..MaxRecords :
       \/ file \in VersionFiles(n)
       \/ file \in JournalCategoryFiles(n)
       \/ file \in AuthorFiles(n)
  /\ run = 1
  /\ previous = [f \in TableFiles |-> <<>>]
  /\ pc = "load"
  /\ error = NoError
  /\ written = {}
  /\ disk = [f \in TableFiles \cup {ArxivMathCsv} |-> <<>>]
  /\ arxiv_math = <<>>
  /\ submission = [columns |-> <<>>, rows |-> <<>>]
  /\ category = <<>>
  /\ unique_names = <<>>
  /\ author = <<>>
  /\ get_gender_calls = <<>>
  /\ author_dict = <<>>
  /\ submission_author = <<>>
  /\ submission_category = <<>>

\* an exception ends the run in the cell that raised it
Raise(cell, exc) == pc' = "aborted" /\ error' = [cell |-> cell, exc |-> exc]

\* to_csv: the file exists from now on and holds the text
Save(name, text) == written' = written \cup {name} /\ disk' = [disk EXCEPT ![name] = text]

\* arxiv_math = loadArxivData(fileName, catFilter = isMathCategory); to_csv.
\* loadArxivData calls json.loads; the notebook imports no json, and the name
\* is taken to be bound in the kernel the cells run in.
LoadMath ==
  /\ pc = "load"
  /\ arxiv_math' = loadArxivData(file, MathFilter)
  /\ Save(ArxivMathCsv, ToCsvArxiv(arxiv_math'))
  /\ pc' = "read_csv"
  /\ UNCHANGED <<file, run, previous, error, submission, category, unique_names, author,
                 get_gender_calls, author_dict, submission_author, submission_category>>

\* arxiv_math = pd.read_csv('data/arxiv-math.csv'); a file without a header
\* line has no columns to parse
ReadArxivMath ==
  /\ pc = "read_csv"
  /\ IF Len(disk[ArxivMathCsv]) = 0
     THEN Raise("read_csv", "EmptyDataError") /\ UNCHANGED arxiv_math
     ELSE /\ arxiv_math' = ReadCsvArxiv(disk[ArxivMathCsv])
          /\ pc' = "submission_date"
          /\ UNCHANGED error
  /\ UNCHANGED <<file, run, previous, written, disk, submission, category, unique_names, author,
                 get_gender_calls, author_dict, submission_author, submission_category>>

\* versions = versions.apply(eval); submission_date = versions.apply(lambda ...)
GetSubmissionDate ==
  /\ pc = "submission_date"
  /\ LET evaluated ==
           [i \in 1..Len(arxiv_math) |->
              [arxiv_math[i] EXCEPT !.versions = Eval(arxiv_math[i].versions)]]
         Fails(i) == DateError(evaluated[i].versions) # ""
     IN IF \E i \in 1..Len(evaluated) : Fails(i)
        THEN LET i == CHOOSE i \in 1..Len(evaluated) :
                        Fails(i) /\ \A j \in 1..(i - 1) : ~Fails(j)
             IN /\ arxiv_math' = evaluated
                /\ Raise("submission_date", DateError(evaluated[i].versions))
        ELSE /\ arxiv_math' =
                  [i \in 1..Len(evaluated) |->
                     [id |-> evaluated[i].id,
                      journal_ref |-> evaluated[i].journal_ref,
                      categories |-> evaluated[i].categories,
                      versions |-> evaluated[i].versions,
                      authors_parsed |-> evaluated[i].authors_parsed,
                      submission_date |-> FirstSubmissionDate(evaluated[i].versions)]]
             /\ pc' = "journal_ref"
             /\ UNCHANGED error
  /\ UNCHANGED <<file, run, previous, written, disk, submission, category, unique_names, author,
                 get_gender_calls, author_dict, submission_author, submission_category>>

\* arxiv_math['journal-ref'] = 1 - arxiv_math['journal-ref'].isnull().astype('int')
JournalRefToBinary ==
  /\ pc = "journal_ref"
  /\ arxiv_math' =
       [i \in 1..Len(arxiv_math) |->
          [arxiv_math[i] EXCEPT !.journal_ref = JournalRefFlag(arxiv_math[i].journal_ref)]]
  /\ pc' = "submission"
  /\ UNCHANGED <<file, run, previous, error, written, disk, submission, category, unique_names, author,
                 get_gender_calls, author_dict, submission_author, submission_category>>

\* submission = arxiv_math[submission_cols].copy(); the rename that follows
\* returns a new frame that is dropped, submission keeps the column 'id'
CreateSubmission ==
  /\ pc = "submission"
  /\ LET copy == SubmissionOf(arxiv_math)
         renamed == Rename(copy, "id", "arxiv_id")
     IN submission' = copy
  /\ pc' = "save_submission"
  /\ UNCHANGED <<file, run, previous, error, written, disk, arxiv_math, category, unique_names, author,
                 get_gender_calls, author_dict, submission_author, submission_category>>

\* submission.to_csv('data/submission.csv', ...)
SaveSubmission ==
  /\ pc = "save_submission"
  /\ Save(SubmissionCsv, ToCsvSubmission(submission))
  /\ pc' = "category"
  /\ UNCHANGED <<file, run, previous, error, arxiv_math, submission, category, unique_names, author,
                 get_gender_calls, author_dict, submission_author, submission_category>>

\* category = pd.DataFrame(category_dict.items(), ...); category.to_csv(...)
CreateCategory ==
  /\ pc = "category"
  /\ category' = CategoryTable
  /\ Save(CategoryCsv, category')
  /\ pc' = "author"
  /\ UNCHANGED <<file, run, previous, error, arxiv_math, submission, unique_names, author,
                 get_gender_calls, author_dict, submission_author, submission_category>>

\* authors_parsed = authors_parsed.apply(eval); names_list, unique_names, author.
\* The NaN that explode leaves for an empty author list has no x[:2].
CreateAuthor ==
  /\ pc = "author"
  /\ LET evaluated ==
           [i \in 1..Len(arxiv_math) |->
              [arxiv_math[i] EXCEPT !.authors_parsed = Eval(arxiv_math[i].authors_parsed)]]
         names_list ==
           Explode([i \in 1..Len(evaluated) |-> evaluated[i].id],
                   [i \in 1..Len(evaluated) |-> evaluated[i].authors_parsed])
     IN /\ arxiv_math' = evaluated
        /\ IF \E k \in 1..Len(names_list) : names_list[k].isna
           THEN Raise("author", "TypeError") /\ UNCHANGED <<unique_names, author>>
           ELSE /\ \E names \in UniqueNameOrders(names_list) :
                     /\ unique_names' = names
                     /\ author' = AuthorTable(names)
                /\ pc' = "gender"
                /\ UNCHANGED error
  /\ UNCHANGED <<file, run, previous, written, disk, submission, category,
                 get_gender_calls, author_dict, submission_author, submission_category>>

\* names, unique_names2, genders, gender_dict, author['gender']
AddGenders ==
  /\ pc = "gender"
  /\ LET names == [k \in 1..Len(author) |-> FirstToken(author[k].first_name)]
         unique_names2 == Range(names)
         gender_dict == [name \in unique_names2 |-> get_gender(name)]
     IN /\ get_gender_calls' = [name \in unique_names2 |-> 1]
        /\ author' =
             [k \in 1..Len(author) |->
                [author_id |-> author[k].author_id, surname |-> author[k].surname,
                 first_name |-> author[k].first_name,
                 gender |-> GenderOf(gender_dict, names[k])]]
  /\ pc' = "save_author"
  /\ UNCHANGED <<file, run, previous, error, written, disk, arxiv_math, submission, category,
                 unique_names, author_dict, submission_author, submission_category>>

\* author.to_csv('author.csv', index=False)
SaveAuthor ==
  /\ pc = "save_author"
  /\ Save(AuthorCsv, author)
  /\ pc' = "author_dict"
  /\ UNCHANGED <<file, run, previous, error, arxiv_math, submission, category, unique_names, author,
                 get_gender_calls, author_dict, submission_author, submission_category>>

\* author_dict = dict(zip(unique_names, author['author_id'].to_list()))
CreateAuthorDict ==
  /\ pc = "author_dict"
  /\ author_dict' = AuthorDict(unique_names, [k \in 1..Len(author) |-> author[k].author_id])
  /\ pc' = "submission_author"
  /\ UNCHANGED <<file, run, previous, error, written, disk, arxiv_math, submission, category,
                 unique_names, author, get_gender_calls, submission_author,
                 submission_category>>

\* submission_author: explode, look every author up in author_dict, to_csv
CreateSubmissionAuthor ==
  /\ pc = "submission_author"
  /\ LET rows ==
           Explode([i \in 1..Len(arxiv_math) |-> arxiv_math[i].id],
                   [i \in 1..Len(arxiv_math) |-> arxiv_math[i].authors_parsed])
     IN IF LookupError(rows, author_dict) # ""
        THEN /\ Raise("submission_author", LookupError(rows, author_dict))
             /\ UNCHANGED <<written, disk, submission_author>>
        ELSE /\ submission_author' = SubmissionAuthorRows(rows, author_dict)
             /\ Save(SubmissionAuthorCsv, submission_author')
             /\ pc' = "submission_category"
             /\ UNCHANGED error
  /\ UNCHANGED <<file, run, previous, arxiv_math, submission, category, unique_names, author,
                 get_gender_calls, author_dict, submission_category>>

\* submission_category: split, explode, keep the math tokens, strip, to_csv
CreateSubmissionCategory ==
  /\ pc = "submission_category"
  /\ submission_category' = SubmissionCategoryRows(arxiv_math)
  /\ Save(SubmissionCategoryCsv, submission_category')
  /\ pc' = "resave_submission"
  /\ UNCHANGED <<file, run, previous, error, arxiv_math, submission, category, unique_names, author,
                 get_gender_calls, author_dict, submission_author>>

\* the last code cell: submission is read back from data/submission.csv,
\* journal-ref is derived again and the file is written again
ResaveSubmission ==
  /\ pc = "resave_submission"
  /\ LET loaded == ReadCsvSubmission(disk[SubmissionCsv]) IN
     submission' =
       [loaded EXCEPT !.rows =
          [i \in 1..Len(loaded.rows) |->
             [loaded.rows[i] EXCEPT !.journal_ref = JournalRefFlag(loaded.rows[i].journal_ref)]]]
  /\ Save(SubmissionCsv, ToCsvSubmission(submission'))
  /\ pc' = "done"
  /\ UNCHANGED <<file, run, previous, error, arxiv_math, category, unique_names, author,
                 get_gender_calls, author_dict, submission_author, submission_category>>

Next ==
  \/ LoadMath
  \/ ReadArxivMath
  \/ GetSubmissionDate
  \/ JournalRefToBinary
  \/ CreateSubmission
  \/ SaveSubmission
  \/ CreateCategory
  \/ CreateAuthor
  \/ AddGenders
  \/ SaveAuthor
  \/ CreateAuthorDict
  \/ CreateSubmissionAuthor
  \/ CreateSubmissionCategory
  \/ ResaveSubmission

Spec == Init /\ [][Next]_vars

\* The notebook is run a second time on the same file, in a new kernel: the
\* names of the first run are gone, the files it wrote stay, and what the
\* five table files held is kept for comparison.
Rerun ==
  /\ pc = "done"
  /\ run = 1
  /\ run' = 2
  /\ previous' = [f \in TableFiles |-> disk[f]]
  /\ pc' = "load"
  /\ error' = NoError
  /\ arxiv_math' = <<>>
  /\ submission' = [columns |-> <<>>, rows |-> <<>>]
  /\ category' = <<>>
  /\ unique_names' = <<>>
  /\ author' = <<>>
  /\ get_gender_calls' = <<>>
  /\ author_dict' = <<>>
  /\ submission_author' = <<>>
  /\ submission_category' = <<>>
  /\ UNCHANGED <<file, written, disk>>

NextTwice == Next \/ Rerun

SpecTwice == Init /\ [][NextTwice]_vars

(***************************************************************************)
(* Vocabulary of the properties.                                           *)
(***************************************************************************)
Cells ==
  <<"load", "read_csv", "submission_date", "journal_ref", "submission",
    "save_submission", "category", "author", "gender", "save_author", "author_dict",
    "submission_author", "submission_category", "resave_submission", "done">>

CellIndex(c) == CHOOSE k \in 1..Len(Cells) : Cells[k] = c

\* the cell the run is in, or stopped in
Here == IF pc = "aborted" THEN error.cell ELSE pc

\* the cell has run to its end
Finished(c) == CellIndex(Here) > CellIndex(c)

\* the records of the file that the run selected
Selected == loadArxivData(file, MathFilter)

\* the tokens of a category string
TokensOf(categories) == Split(categories, " ")

\* area and subarea of a token "area.subarea"
AreaOf(token) == IF Find(token, ".") = -1 THEN token ELSE SubSeq(token, 1, Find(token, "."))
SubareaOf(token) ==
  IF Find(token, ".") = -1 THEN <<>> ELSE SubSeq(token, Find(token, ".") + 2, Len(token))

TargetArea == <<"m", "a", "t", "h">>

\* C1: every category_id of Submission-Category is a key of category_dict
C1_CategoryIdsInEnumeration ==
  Finished("submission_category") =>
    \A k \in 1..Len(disk[SubmissionCategoryCsv]) :
      disk[SubmissionCategoryCsv][k].category_id \in category_dict

\* a selected record has a math token whose subarea is not in category_dict
HasUnknownMathSubarea ==
  \E i \in 1..Len(Selected) :
    \E token \in Range(TokensOf(Selected[i].categories)) :
      AreaOf(token) = TargetArea /\ SubareaOf(token) \notin category_dict

\* C2: with a math token of unknown subarea among the selected records, the
\* run does not get past the category filter and writes no Submission-Category
C2_UnknownCategoryAborts ==
  HasUnknownMathSubarea =>
    /\ SubmissionCategoryCsv \notin written
    /\ ~Finished("submission_category")

\* C3: a run that aborts has written none of the five table files
C3_AllOrNothing == pc = "aborted" => written \cap TableFiles = {}

\* the date written in the first 'created' string of a record
FirstCreatedDay(doc) ==
  [year |-> doc.versions[1].created.year,
   month |-> MonthNum[doc.versions[1].created.mon],
   day |-> doc.versions[1].created.day]

\* C4: submission_date is the calendar date of the 'created' string of the
\* entry at index 0 of the history, whatever the later entries hold
C4_FirstRevisionDate ==
  Finished("submission") =>
    /\ Len(submission.rows) = Len(Selected)
    /\ \A i \in 1..Len(Selected) :
         /\ Len(Selected[i].versions) > 0
         /\ submission.rows[i].submission_date = FirstCreatedDay(Selected[i])
         /\ DOMAIN submission.rows[i].submission_date = {"year", "month", "day"}
         /\ SubmissionCsv \in written =>
              disk[SubmissionCsv].rows[i].submission_date = FirstCreatedDay(Selected[i])

\* C4 happens: a finished run with a record whose second revision is of another day
C4_Witness ==
  /\ pc = "done"
  /\ \E i \in 1..Len(Selected) :
       /\ Len(Selected[i].versions) >= 2
       /\ Selected[i].versions[2].created.day # Selected[i].versions[1].created.day
       /\ submission.rows[i].submission_date = FirstCreatedDay(Selected[i])

\* C5: an empty history or an unparseable first timestamp does not abort the run
C5_DateFailureIsPerRecord ==
  ~(pc = "aborted" /\ error.exc \in {"IndexError", "ParserError"})

\* the journal-ref column as read from data/arxiv-math.csv
SourceJournalRef(i) == ReadCsvArxiv(disk[ArxivMathCsv])[i].journal_ref

\* C6: after the one application every journal-ref is 0 or 1, and 1 exactly for
\* the records whose source field is not null
C6_JournalRefFlag ==
  Finished("journal_ref") =>
    \A i \in 1..Len(arxiv_math) :
      /\ arxiv_math[i].journal_ref \in {0, 1}
      /\ arxiv_math[i].journal_ref = 1 <=> SourceJournalRef(i) # NaN
      /\ arxiv_math[i].journal_ref = 1 <=> Selected[i].journal_ref \notin {None, ""}

\* C6 happens: one record with a journal reference and one without
C6_Witness ==
  /\ Finished("journal_ref")
  /\ \E i, j \in 1..Len(arxiv_math) :
       /\ SourceJournalRef(i) # NaN /\ arxiv_math[i].journal_ref = 1
       /\ SourceJournalRef(j) = NaN /\ arxiv_math[j].journal_ref = 0

\* C7: the journal-ref values of the Submission file written last equal the
\* values after the first application
C7_JournalRefIdempotent ==
  pc = "done" =>
    \A i \in 1..Len(arxiv_math) :
      disk[SubmissionCsv].rows[i].journal_ref = IntText(arxiv_math[i].journal_ref)

\* the author triples of the selected records, in record order then list order
SelectedTriples == Flatten([i \in 1..Len(Selected) |-> Selected[i].authors_parsed])

\* the distinct (surname, given name) pairs among them
SelectedPairs == {<<t[1], t[2]>> : t \in Range(SelectedTriples)}

\* C8: the Author table and author_dict are a bijection between the distinct
\* (surname, given name) pairs of the selected records and 0..n-1, and triples
\* that differ only in the suffix share the author_id
C8_RegistryBijection ==
  /\ Finished("author") =>
       /\ Len(author) = Cardinality(SelectedPairs)
       /\ {<<author[k].surname, author[k].first_name>> : k \in 1..Len(author)} = SelectedPairs
       /\ \A k \in 1..Len(author) : author[k].author_id = k - 1
  /\ Finished("author_dict") =>
       /\ DOMAIN author_dict = SelectedPairs
       /\ {author_dict[p] : p \in SelectedPairs} = 0..(Cardinality(SelectedPairs) - 1)
       /\ \A p \in SelectedPairs :
            <<author[author_dict[p] + 1].surname, author[author_dict[p] + 1].first_name>> = p
       /\ \A t, u \in Range(SelectedTriples) :
            (t[1] = u[1] /\ t[2] = u[2]) =>
              author_dict[RegistryKey(t)] = author_dict[RegistryKey(u)]

\* C8 happens: a registry of two authors, one of them listed with two suffixes
C8_Witness ==
  /\ Finished("author_dict")
  /\ Len(author) >= 2
  /\ Len(SelectedTriples) > Len(author)
  /\ \E t, u \in Range(SelectedTriples) : t[1] = u[1] /\ t[2] = u[2] /\ t[3] # u[3]

\* C9: no lookup of an author fails; every author_id of Submission-Author is
\* the id of the Author row with the surname and given name of the triple it
\* stands for, and every arxiv_id is the id of a Submission row
C9_AuthorReferences ==
  /\ error.cell # "submission_author"
  /\ error.exc # "KeyError"
  /\ Finished("submission_author") =>
       /\ Len(submission_author) = Len(SelectedTriples)
       /\ \A k \in 1..Len(submission_author) :
            LET id == submission_author[k].author_id IN
            /\ id \in {author[j].author_id : j \in 1..Len(author)}
            /\ author[id + 1].author_id = id
            /\ author[id + 1].surname = SelectedTriples[k][1]
            /\ author[id + 1].first_name = SelectedTriples[k][2]
            /\ submission_author[k].arxiv_id \in
                 {submission.rows[i].id : i \in 1..Len(submission.rows)}
       /\ disk[SubmissionAuthorCsv] = submission_author

\* C9 happens: a finished run in which two submissions name the same author
\* and a third reference names another
C9_Witness ==
  /\ pc = "done"
  /\ \E j, k, l \in 1..Len(submission_author) :
       /\ submission_author[j].arxiv_id # submission_author[k].arxiv_id
       /\ submission_author[j].author_id = submission_author[k].author_id
       /\ submission_author[l].author_id # submission_author[j].author_id

\* the rows the filter is to produce: in record order then token order, one
\* row per token whose area is math, holding the subarea
ExpectedCategoryRows ==
  LET tokens == Explode([i \in 1..Len(arxiv_math) |-> arxiv_math[i].id],
                        [i \in 1..Len(arxiv_math) |-> TokensOf(arxiv_math[i].categories)])
      InArea(row) == AreaOf(row.value) = TargetArea
      kept == SelectSeq(tokens, InArea)
  IN [k \in 1..Len(kept) |->
        [arxiv_id |-> kept[k].id, category_id |-> SubareaOf(kept[k].value)]]

\* C10: the filter keeps a token exactly when its area is math and rewrites it
\* to its subarea; a token of any other area gives no row
C10_CategoryFilterByArea ==
  Finished("submission_category") => submission_category = ExpectedCategoryRows

\* a record has a token whose area is math
HasMathToken(doc) ==
  \E token \in Range(TokensOf(doc.categories)) : AreaOf(token) = TargetArea

\* C11: the loader returns, in input order, exactly the records of the file
\* that have a token whose area is math, tokens without a '.' included
C11_RecordFilterByArea ==
  pc = "read_csv" => arxiv_math = SelectSeq(file, HasMathToken)

\* the author_id values of an Author table
IdsOf(table) == {table[k].author_id : k \in 1..Len(table)}

\* the Author table with every author_id renamed by f
Renamed(table, f) ==
  {[author_id |-> f[table[k].author_id], surname |-> table[k].surname,
    first_name |-> table[k].first_name, gender |-> table[k].gender] : k \in 1..Len(table)}

\* C12: a second run on the same file writes the same Submission, Category and
\* Submission-Category tables, and Author and Submission-Author tables that
\* are those of the first run under a one-to-one renaming of the author_id
C12_RerunUpToRenaming ==
  (run = 2 /\ pc = "done") =>
    /\ disk[SubmissionCsv] = previous[SubmissionCsv]
    /\ disk[CategoryCsv] = previous[CategoryCsv]
    /\ disk[SubmissionCategoryCsv] = previous[SubmissionCategoryCsv]
    /\ Len(disk[AuthorCsv]) = Len(previous[AuthorCsv])
    /\ Len(disk[SubmissionAuthorCsv]) = Len(previous[SubmissionAuthorCsv])
    /\ \E f \in [IdsOf(previous[AuthorCsv]) -> IdsOf(disk[AuthorCsv])] :
         /\ \A a, b \in DOMAIN f : f[a] = f[b] => a = b
         /\ Renamed(previous[AuthorCsv], f) = Range(disk[AuthorCsv])
         /\ \A k \in 1..Len(disk[SubmissionAuthorCsv]) :
              /\ disk[SubmissionAuthorCsv][k].arxiv_id = previous[SubmissionAuthorCsv][k].arxiv_id
              /\ disk[SubmissionAuthorCsv][k].author_id =
                   f[previous[SubmissionAuthorCsv][k].author_id]

\* C12 happens: the second run took the names in another order than the first
C12_Witness ==
  /\ run = 2
  /\ pc = "done"
  /\ disk[AuthorCsv] # previous[AuthorCsv]
  /\ Len(disk[AuthorCsv]) >= 3
  /\ Len(disk[SubmissionAuthorCsv]) >= 3

\* C13: the Submission file has the columns arxiv_id, submission_date, title,
\* abstract, journal-ref, comments
C13_SubmissionKeyColumn ==
  SubmissionCsv \in written =>
    disk[SubmissionCsv].columns =
      <<"arxiv_id", "submission_date", "title", "abstract", "journal-ref", "comments">>

\* the rows of Submission-Author that carry the id of the i-th selected record
RowsOfRecord(i) ==
  LET Carries(row) == row.arxiv_id = arxiv_math[i].id IN SelectSeq(submission_author, Carries)

\* C14: the expansion of the author lists never fails and gives one row per
\* element of each list, in record order then element order, without
\* deduplication: none for an empty list, k for a pair listed k times
C14_OneRowPerAuthor ==
  /\ error.cell \notin {"author", "submission_author"}
  /\ Finished("submission_author") =>
       /\ Len(submission_author) = Len(SelectedTriples)
       /\ \A i \in 1..Len(Selected) :
            /\ Len(RowsOfRecord(i)) = Len(Selected[i].authors_parsed)
            /\ \A k \in 1..Len(RowsOfRecord(i)) :
                 RowsOfRecord(i)[k].author_id =
                   author_dict[RegistryKey(Selected[i].authors_parsed[k])]

\* C15: when the cell that looks the authors up starts, author_dict holds an
\* author_id for every distinct pair of the selected records, and once built
\* author_dict does not change
C15_RegistryCompleteBeforeLookup ==
  [][/\ pc = "submission_author" =>
          /\ DOMAIN author_dict = SelectedPairs
          /\ \A p \in SelectedPairs : author_dict[p] \in IdsOf(author)
     /\ Finished("author_dict") => author_dict' = author_dict]_vars

\* C15 happens: the lookups were made against a registry of several authors
C15_Witness ==
  /\ Finished("submission_author")
  /\ pc # "aborted"
  /\ Cardinality(DOMAIN author_dict) >= 2
  /\ Len(submission_author) >= 3

\* the part of a first name before its first space
LeadingToken(first_name) ==
  IF \E k \in 1..Len(first_name) : first_name[k] = " "
  THEN SubSeq(first_name, 1,
              (CHOOSE k \in 1..Len(first_name) :
                 first_name[k] = " " /\ \A j \in 1..(k - 1) : first_name[j] # " ") - 1)
  ELSE first_name

\* the gender the classifier's result for a token stands for
NormalisedGender(token) ==
  IF get_gender(token) \in {"male", "female"} THEN get_gender(token) ELSE "unknown"

\* C16: the gender of every Author row is the classifier's result for the
\* first token of first_name when that is male or female and unknown
\* otherwise; authors with the same first token have the same gender, and the
\* classifier is called exactly once for each distinct first token
C16_GenderByFirstToken ==
  Finished("gender") =>
    /\ \A k \in 1..Len(author) :
         /\ author[k].gender = NormalisedGender(LeadingToken(author[k].first_name))
         /\ author[k].gender \in {"male", "female", "unknown"}
    /\ \A j, k \in 1..Len(author) :
         LeadingToken(author[j].first_name) = LeadingToken(author[k].first_name) =>
           author[j].gender = author[k].gender
    /\ DOMAIN get_gender_calls = {LeadingToken(author[k].first_name) : k \in 1..Len(author)}
    /\ \A token \in DOMAIN get_gender_calls : get_gender_calls[token] = 1

\* C16 happens: two authors share a first token the classifier knows, and a
\* third has a name for which it answers neither male nor female
C16_Witness ==
  /\ Finished("gender")
  /\ \E j, k, l \in 1..Len(author) :
       /\ j # k
       /\ LeadingToken(author[j].first_name) = LeadingToken(author[k].first_name)
       /\ author[j].first_name # author[k].first_name
       /\ author[j].gender = "female"
       /\ get_gender(LeadingToken(author[l].first_name)) = "andy"
       /\ author[l].gender = "unknown"

====
